---- MODULE Spec2Model ----
(***************************************************************************)
(* Model of DLiteGenerateStrategy.get (oteapi_dlite/strategies/generate.py) *)
(* One invocation of get() is followed statement by statement; pc is the    *)
(* position inside get().  The collaborators that get() calls (collection   *)
(* registry, driver table, storage driver, data cache, triplestore) are     *)
(* state of the model, and their failures are nondeterministic choices.     *)
(***************************************************************************)
EXTENDS Integers, Sequences, FiniteSets, TLC

VARIABLES
    config,       \* DLiteStorageConfig of this invocation
    session,      \* the session dict handed to get()
    collections,  \* registry: collection id -> content
    files,        \* filesystem: path -> bytes (NoBytes when absent)
    tmpdir,       \* TRUE while the TemporaryDirectory of line 252 exists
    cache,        \* DataCache: key -> bytes (NoBytes when absent)
    pc,           \* position inside get()
    driver,       \* local `driver`
    coll,         \* local `coll` (a collection id)
    inst,         \* local `inst`
    error,        \* exception get() raised ("None" while none)
    errAt,        \* pc at which it was raised
    tsOpened,     \* number of Triplestore(...) connections opened
    tsClosed,     \* number of ts.close() calls
    kbResource,   \* resource description saved by save_container
    triples,      \* extra triples added with ts.add
    ctxTodo,      \* number of kb_document_context items not yet added
    instances,    \* number of instances coll.get_instances(...) yielded
    restrictions, \* result of ts.restrictions(...): one entry per input
    updateCalls,  \* number of update_collection calls
    result        \* collection_id of the returned DLiteSessionUpdate

vars == <<config, session, collections, files, tmpdir, cache, pc, driver, coll,
          inst, error, errAt, tsOpened, tsClosed, kbResource, triples, ctxTodo,
          instances, restrictions, updateCalls, result>>

----------------------------------------------------------------------------
\* Bounds of the model.

\* largest number of instances get_instances can construct for a datamodel
MaxInstances == 1
\* largest number of entries of kb_document_context
MaxContext == 1
\* largest number of has-input restrictions of a computation
MaxInputs == 2

----------------------------------------------------------------------------
\* Values.

None == "None"

\* Python truthiness of an Optional[str]: None and "" are falsy.
Truthy(s) == s \notin {None, ""}

hasInput == "https://w3id.org/emmo#EMMO_36e69413_8c59_4799_946c_10b05d266e22"

DefaultKey == "generate_data"

\* The path line 253 hands to the driver: the literal text, not an f-string.
LiteralTmpPath == "{tmpdir}/data"
\* The path line 254 opens: f"{tmpdir}/data" inside the temporary directory.
RealTmpPath == "/tmp/tmpdir0/data"

UserLocation == "/tmp/out.json"

Paths == {UserLocation, LiteralTmpPath, RealTmpPath}

\* Paths removed when the TemporaryDirectory is left.
InTmpDir(p) == p = RealTmpPath

Keys == {"k1", DefaultKey}

NoInst == [kind |-> None, id |-> None, meta |-> None]

NoBytes == [driver |-> None, inst |-> NoInst, options |-> None]

\* What driver `d` writes for artifact `i` under `options`.
Serialise(d, i, options) == [driver |-> d, inst |-> i, options |-> options]

ImageMeta == "http://onto-ns.com/meta/1.0/Image"
CollectionMeta == "http://onto-ns.com/meta/0.1/Collection"

\* The collection every run starts with: it holds the instance "image".
CollC == "C"
\* The id of a collection get_collection creates.
CollNew == "new"

Configs ==
    [ driver : {None, "json"},
      mediaType : {None, "application/json", "text/unknown"},
      options : {None, "mode=w"},
      location : {None, UserLocation},
      label : {None, "image", "nolabel"},
      datamodel : {None, ImageMeta},
      store_collection : BOOLEAN,
      store_collection_id : {None, "copy1"},
      allow_incomplete : BOOLEAN,
      collection_id : {None, CollC, "nocoll"},
      accessKey : {None, "k1"},
      kb_document_iri : {None, "kb:doc"},
      kb_document_context : 0..MaxContext,
      kb_document_computation : {None, "kb:comp"} ]
\* kb_document_context is modelled by the size of the dict; its items are
\* the properties 1..size, each mapped to itself.

Sessions == [ collection_id : {None, CollC}, kb_settings : BOOLEAN ]

NoResource ==
    [ downloadUrl |-> None, mediaType |-> None, metadata |-> None,
      driver |-> None, options |-> None ]

InitFiles == [p \in Paths |-> NoBytes]
InitCache == [k \in Keys |-> NoBytes]

Init ==
    /\ config \in Configs
    /\ session \in Sessions
    /\ collections = (CollC :> [labels |-> {"image"}])
    /\ files = InitFiles
    /\ tmpdir = FALSE
    /\ cache = InitCache
    /\ pc = "driver"
    /\ driver = None
    /\ coll = None
    /\ inst = NoInst
    /\ error = None
    /\ errAt = None
    /\ tsOpened = 0
    /\ tsClosed = 0
    /\ kbResource = NoResource
    /\ triples = {}
    /\ ctxTodo = 0
    /\ instances = 0
    /\ restrictions = <<>>
    /\ updateCalls = 0
    /\ result = None

----------------------------------------------------------------------------
\* Collaborators.

\* get_driver(mediaType): the media type -> driver table.  "None" when the
\* table has no entry.
get_driver(mediaType) ==
    IF mediaType = "application/json" THEN "json" ELSE None

\* The error get_driver fails with.
get_driver_error(mediaType) ==
    IF Truthy(mediaType) THEN "UnsupportedMediaTypeError"
    ELSE "ConfigurationError"

\* get_settings(session, "tripper.triplestore")
get_settings(s) == s.kb_settings

\* The sequences ts.restrictions can return: one entry per input
\* individual, TRUE when its resource description has a metadata id.
RestrictionSeqs ==
    UNION { [1..n -> BOOLEAN] : n \in 0..MaxInputs }

\* The cache key of lines 247-250.
CacheKey ==
    IF Truthy(config.accessKey) THEN config.accessKey ELSE DefaultKey

\* Leaving the `with tempfile.TemporaryDirectory()` block removes what is
\* inside the directory.
LeaveTmpDir(f) == [p \in Paths |-> IF InTmpDir(p) THEN NoBytes ELSE f[p]]

\* The resource description of lines 272-290.
Resource ==
    [ downloadUrl |-> config.location,
      mediaType |-> IF Truthy(config.mediaType) THEN config.mediaType
                    ELSE "application/vnd.dlite-parse",
      metadata |-> IF Truthy(config.datamodel) THEN config.datamodel
                   ELSE inst.meta,
      driver |-> config.driver,
      options |-> config.options ]

----------------------------------------------------------------------------
\* Leaving get() with an exception.

Raise(e) ==
    /\ pc' = "raised"
    /\ error' = e
    /\ errAt' = pc

\* Mutant of KBRaise: the try block without its finally clause, so an
\* exception leaves get() with the triplestore still open.
KBRaiseNoFinally(e) ==
    /\ Raise(e)
    /\ UNCHANGED tsClosed

\* An exception raised inside the try block of lines 293-325: the finally
\* clause closes the triplestore, then the exception leaves get().
KBRaise(e) ==
    /\ Raise(e)
    /\ tsClosed' = tsClosed + 1

----------------------------------------------------------------------------
\* The statements of get().

\* lines 216-220
ResolveDriver ==
    /\ pc = "driver"
    /\ IF Truthy(config.driver)
       THEN /\ driver' = config.driver
            /\ pc' = "collection"
            /\ UNCHANGED <<error, errAt>>
       ELSE IF get_driver(config.mediaType) # None
       THEN /\ driver' = get_driver(config.mediaType)
            /\ pc' = "collection"
            /\ UNCHANGED <<error, errAt>>
       ELSE /\ Raise(get_driver_error(config.mediaType))
            /\ UNCHANGED driver
    /\ UNCHANGED <<config, session, collections, files, tmpdir, cache, coll,
                   inst, tsOpened, tsClosed, kbResource, triples, ctxTodo,
                   instances, restrictions, updateCalls, result>>

\* line 222: get_collection(session, config.collection_id)
GetCollection ==
    /\ pc = "collection"
    /\ IF Truthy(config.collection_id)
       THEN IF config.collection_id \in DOMAIN collections
            THEN /\ coll' = config.collection_id
                 /\ pc' = "select"
                 /\ UNCHANGED <<collections, error, errAt>>
            ELSE /\ Raise("NotFoundError")
                 /\ UNCHANGED <<collections, coll>>
       ELSE IF Truthy(session.collection_id)
            THEN /\ coll' = session.collection_id
                 /\ pc' = "select"
                 /\ UNCHANGED <<collections, error, errAt>>
            ELSE /\ collections' = collections @@ (CollNew :> [labels |-> {}])
                 /\ coll' = CollNew
                 /\ pc' = "select"
                 /\ UNCHANGED <<error, errAt>>
    /\ UNCHANGED <<config, session, files, tmpdir, cache, driver, inst,
                   tsOpened, tsClosed, kbResource, triples, ctxTodo,
                   instances, restrictions, updateCalls, result>>

\* Mutant of SelectByDatamodel: next(instances, None) instead of
\* next(instances), so an empty sequence selects nothing and get() goes on.
SelectByDatamodelDefault ==
    \E n \in 0..MaxInstances, m \in 0..MaxInstances :
      /\ (collections[coll].labels = {} => n = 0 /\ m = 0)
      /\ instances' = n + (IF config.allow_incomplete THEN m ELSE 0)
      /\ IF instances' > 0
         THEN inst' = [kind |-> "mapped", id |-> "mapped1",
                       meta |-> config.datamodel]
         ELSE inst' = NoInst
      /\ pc' = "save"
      /\ UNCHANGED <<error, errAt>>

\* lines 226-232: instances = coll.get_instances(metaid=config.datamodel,
\* property_mappings=True, allow_incomplete=...); inst = next(instances).
\* The collection yields n instances with complete mappings and, when
\* allow_incomplete is set, m more with incomplete ones; a collection
\* without content yields none.
SelectByDatamodel ==
    \E n \in 0..MaxInstances, m \in 0..MaxInstances :
      /\ (collections[coll].labels = {} => n = 0 /\ m = 0)
      /\ instances' = n + (IF config.allow_incomplete THEN m ELSE 0)
      /\ IF instances' > 0
         THEN /\ inst' = [kind |-> "mapped", id |-> "mapped1",
                          meta |-> config.datamodel]
              /\ pc' = "save"
              /\ UNCHANGED <<error, errAt>>
         ELSE /\ Raise("StopIteration")
              /\ UNCHANGED inst

\* lines 224-241
SelectInstance ==
    /\ pc = "select"
    /\ IF Truthy(config.label)
       THEN \* inst = coll[config.label]
            /\ IF config.label \in collections[coll].labels
               THEN /\ inst' = [kind |-> "instance", id |-> config.label,
                                meta |-> ImageMeta]
                    /\ pc' = "save"
                    /\ UNCHANGED <<error, errAt>>
               ELSE /\ Raise("NotFoundError")
                    /\ UNCHANGED inst
            /\ UNCHANGED <<collections, instances>>
       ELSE IF Truthy(config.datamodel)
       THEN /\ SelectByDatamodel
            /\ UNCHANGED collections
       ELSE IF config.store_collection
       THEN /\ IF Truthy(config.store_collection_id)
               THEN \* inst = coll.copy(newid=config.store_collection_id)
                    /\ collections' = collections @@
                          (config.store_collection_id :> collections[coll])
                    /\ inst' = [kind |-> "collection",
                                id |-> config.store_collection_id,
                                meta |-> CollectionMeta]
               ELSE /\ inst' = [kind |-> "collection", id |-> coll,
                                meta |-> CollectionMeta]
                    /\ UNCHANGED collections
            /\ pc' = "save"
            /\ UNCHANGED <<error, errAt, instances>>
       ELSE /\ Raise("ValueError")
            /\ UNCHANGED <<collections, inst, instances>>
    /\ UNCHANGED <<config, session, files, tmpdir, cache, driver, coll,
                   tsOpened, tsClosed, kbResource, triples, ctxTodo,
                   restrictions, updateCalls, result>>

\* lines 244-245: inst.save(driver, config.location, config.options)
SaveLocation ==
    /\ pc = "save"
    /\ Truthy(config.location)
    /\ \E ok \in BOOLEAN :
         IF ok
         THEN /\ files' = [files EXCEPT ![config.location] =
                              Serialise(driver, inst, config.options)]
              /\ pc' = "kb"
              /\ UNCHANGED <<error, errAt>>
         ELSE /\ Raise("PersistenceError")
              /\ UNCHANGED files
    /\ UNCHANGED <<config, session, collections, tmpdir, cache, driver, coll,
                   inst, tsOpened, tsClosed, kbResource, triples, ctxTodo,
                   instances, restrictions, updateCalls, result>>

\* lines 246-253: the cache branch up to inst.save(driver, "{tmpdir}/data", ...).
\* The path is the literal text "{tmpdir}/data": the driver writes there, or
\* fails when it cannot (no directory of that name).
SaveCache ==
    /\ pc = "save"
    /\ ~Truthy(config.location)
    /\ \E ok \in BOOLEAN :
         IF ok
         THEN /\ files' = [files EXCEPT ![LiteralTmpPath] =
                              Serialise(driver, inst, config.options)]
              /\ tmpdir' = TRUE
              /\ pc' = "readback"
              /\ UNCHANGED <<error, errAt>>
         ELSE /\ Raise("PersistenceError")
              /\ files' = LeaveTmpDir(files)
              /\ tmpdir' = FALSE
    /\ UNCHANGED <<config, session, collections, cache, driver, coll, inst,
                   tsOpened, tsClosed, kbResource, triples, ctxTodo,
                   instances, restrictions, updateCalls, result>>

\* lines 254-255: open(f"{tmpdir}/data", "rb"), cache.add(f.read(), key=key),
\* then the TemporaryDirectory is left.
ReadBack ==
    /\ pc = "readback"
    /\ IF files[RealTmpPath] = NoBytes
       THEN /\ Raise("FileNotFoundError")
            /\ UNCHANGED cache
       ELSE \E ok \in BOOLEAN :
              IF ok
              THEN /\ cache' = [cache EXCEPT ![CacheKey] = files[RealTmpPath]]
                   /\ pc' = "kb"
                   /\ UNCHANGED <<error, errAt>>
              ELSE /\ Raise("CacheError")
                   /\ UNCHANGED cache
    /\ files' = LeaveTmpDir(files)
    /\ tmpdir' = FALSE
    /\ UNCHANGED <<config, session, collections, driver, coll, inst,
                   tsOpened, tsClosed, kbResource, triples, ctxTodo,
                   instances, restrictions, updateCalls, result>>

\* lines 258-292: the settings check and Triplestore(**kb_settings)
OpenKB ==
    /\ pc = "kb"
    /\ IF ~Truthy(config.kb_document_iri)
       THEN /\ pc' = "update"
            /\ UNCHANGED <<error, errAt, tsOpened>>
       ELSE IF ~get_settings(session)
       THEN /\ Raise("KeyError")
            /\ UNCHANGED tsOpened
       ELSE \E ok \in BOOLEAN :
              IF ok
              THEN /\ tsOpened' = tsOpened + 1
                   /\ pc' = "save_container"
                   /\ UNCHANGED <<error, errAt>>
              ELSE /\ Raise("TriplestoreError")
                   /\ UNCHANGED tsOpened
    /\ UNCHANGED <<config, session, collections, files, tmpdir, cache, driver,
                   coll, inst, tsClosed, kbResource, triples, ctxTodo,
                   instances, restrictions, updateCalls, result>>

\* lines 294-301: save_container(ts, resource, config.kb_document_iri, ...)
SaveContainer ==
    /\ pc = "save_container"
    /\ \E ok \in BOOLEAN :
         IF ok
         THEN /\ kbResource' = Resource
              /\ ctxTodo' = config.kb_document_context
              /\ pc' = IF config.kb_document_context > 0 THEN "context"
                       ELSE "computation"
              /\ UNCHANGED <<error, errAt, tsClosed>>
         ELSE /\ KBRaise("TriplestoreError")
              /\ UNCHANGED <<kbResource, ctxTodo>>
    /\ UNCHANGED <<config, session, collections, files, tmpdir, cache, driver,
                   coll, inst, tsOpened, triples, instances, restrictions,
                   updateCalls, result>>

\* lines 302-303: one ts.add((config.kb_document_iri, prop, val))
AddContext ==
    /\ pc = "context"
    /\ \E ok \in BOOLEAN :
         IF ok
         THEN /\ triples' = triples \cup
                   { << config.kb_document_iri,
                        config.kb_document_context - ctxTodo + 1 >> }
              /\ ctxTodo' = ctxTodo - 1
              /\ pc' = IF ctxTodo > 1 THEN "context" ELSE "computation"
              /\ UNCHANGED <<error, errAt, tsClosed>>
         ELSE /\ KBRaise("TriplestoreError")
              /\ UNCHANGED <<triples, ctxTodo>>
    /\ UNCHANGED <<config, session, collections, files, tmpdir, cache, driver,
                   coll, inst, tsOpened, kbResource, instances, restrictions,
                   updateCalls, result>>

\* lines 305-325: the computation inputs, then the finally clause.
\* The loop body starts with `inputs.append(r["value"])`; no name `inputs`
\* is bound in get() or in the module, so the first iteration raises
\* NameError before load_container (not imported either) or the metadata
\* test of lines 312-322 run.
Computation ==
    /\ pc = "computation"
    /\ IF ~Truthy(config.kb_document_computation)
       THEN /\ tsClosed' = tsClosed + 1
            /\ pc' = "update"
            /\ UNCHANGED <<error, errAt, restrictions>>
       ELSE \E ok \in BOOLEAN, rs \in RestrictionSeqs :
              IF ~ok
              THEN /\ KBRaise("TriplestoreError")
                   /\ UNCHANGED restrictions
              ELSE /\ restrictions' = rs
                   /\ IF Len(rs) = 0
                      THEN /\ tsClosed' = tsClosed + 1
                           /\ pc' = "update"
                           /\ UNCHANGED <<error, errAt>>
                      ELSE KBRaise("NameError")
    /\ UNCHANGED <<config, session, collections, files, tmpdir, cache, driver,
                   coll, inst, tsOpened, kbResource, triples, ctxTodo,
                   instances, updateCalls, result>>

\* Mutant of UpdateAndReturn: the session update carries the id of the
\* selected artifact instead of the id of the fetched collection.
UpdateAndReturnInst ==
    /\ pc = "update"
    /\ updateCalls' = updateCalls + 1
    /\ result' = IF inst.kind = "collection" THEN inst.id ELSE coll
    /\ pc' = "returned"
    /\ UNCHANGED <<config, session, collections, files, tmpdir, cache, driver,
                   coll, inst, error, errAt, tsOpened, tsClosed, kbResource,
                   triples, ctxTodo, instances, restrictions>>

\* lines 333-334: update_collection(coll); return DLiteSessionUpdate(...)
UpdateAndReturn ==
    /\ pc = "update"
    /\ updateCalls' = updateCalls + 1
    /\ result' = coll
    /\ pc' = "returned"
    /\ UNCHANGED <<config, session, collections, files, tmpdir, cache, driver,
                   coll, inst, error, errAt, tsOpened, tsClosed, kbResource,
                   triples, ctxTodo, instances, restrictions>>

Next ==
    \/ ResolveDriver
    \/ GetCollection
    \/ SelectInstance
    \/ SaveLocation
    \/ SaveCache
    \/ ReadBack
    \/ OpenKB
    \/ SaveContainer
    \/ AddContext
    \/ Computation
    \/ UpdateAndReturn

Spec == Init /\ [][Next]_vars

----------------------------------------------------------------------------
\* Vocabulary of the properties.

Terminal == pc \in {"returned", "raised"}

\* Number of selection policies the configuration sets.
PolicyCount ==
    (IF Truthy(config.label) THEN 1 ELSE 0)
    + (IF Truthy(config.datamodel) THEN 1 ELSE 0)
    + (IF config.store_collection THEN 1 ELSE 0)

InitCollections == (CollC :> [labels |-> {"image"}])

NothingWritten == files = InitFiles /\ cache = InitCache

\* get() has got past instance selection (lines 216-241 all succeeded).
ReachedPersistence ==
    /\ pc \notin {"driver", "collection", "select"}
    /\ errAt \notin {"driver", "collection", "select"}

\* The persistence step (lines 243-255) is over, by success or by exception.
PersistenceOver ==
    /\ ReachedPersistence
    /\ pc \notin {"save", "readback"}

\* get() ended because a collaborator (storage driver, cache, triplestore)
\* reported a failure of its own.
CollaboratorFailed ==
    pc = "raised" /\ error \in {"PersistenceError", "CacheError", "TriplestoreError"}

\* The bytes the resolved driver produces for the selected artifact.
ArtifactBytes == Serialise(driver, inst, config.options)

\* The collection id get_collection resolves for this invocation.
FetchedId ==
    IF Truthy(config.collection_id) THEN config.collection_id
    ELSE IF Truthy(session.collection_id) THEN session.collection_id
    ELSE CollNew

----------------------------------------------------------------------------
\* C1: with none of label, datamodel and store_collection set, get() ends
\* with an exception and has had no side effect: the registry of collections
\* is as it was, no file and no cache entry was written, no triplestore was
\* opened and update_collection was not called; the exception that the
\* policy test raises is the configuration error (ValueError).
C1_NoPolicyFailsWithoutSideEffect ==
    (PolicyCount = 0 /\ Terminal) =>
        /\ pc = "raised"
        /\ (errAt = "select" => error = "ValueError")
        /\ collections = InitCollections
        /\ NothingWritten
        /\ tsOpened = 0
        /\ updateCalls = 0

\* C2: a configuration that sets more than one of label, datamodel and
\* store_collection, like one that sets none, selects no instance, persists
\* nothing and never returns.
C2_ExactlyOnePolicy ==
    (PolicyCount # 1) =>
        /\ inst = NoInst
        /\ NothingWritten
        /\ pc # "returned"

\* C3: once the persistence step is over and no collaborator failed, exactly
\* one branch has run: with a location, that location holds the artifact as
\* the driver serialises it under config.options, and the cache and every
\* other path are untouched; without a location, the cache holds an entry
\* under the key and no path outside the temporary directory was written.
C3_ExactlyOneBranch ==
    (PersistenceOver /\ ~CollaboratorFailed) =>
        IF Truthy(config.location)
        THEN /\ files[config.location] = ArtifactBytes
             /\ \A p \in Paths \ {config.location} : files[p] = NoBytes
             /\ cache = InitCache
        ELSE /\ cache[CacheKey] # NoBytes
             /\ \A p \in Paths : ~InTmpDir(p) => files[p] = NoBytes

\* C4: in the cache branch the file that is read back is the file the driver
\* just wrote, and a get() that returned without a location has put exactly
\* those bytes in the cache under accessKey, or under "generate_data" when
\* no accessKey is given, and under no other key.
C4_CacheHoldsSerialisedBytes ==
    /\ (pc = "readback" => files[RealTmpPath] = ArtifactBytes)
    /\ (pc = "returned" /\ ~Truthy(config.location)) =>
          /\ cache[CacheKey] = ArtifactBytes
          /\ \A k \in Keys \ {CacheKey} : cache[k] = NoBytes

\* C5: once get() has returned or raised in the cache branch, no file that
\* the driver wrote as the internal temporary file exists any more.
C5_TemporaryFileRemoved ==
    (Terminal /\ ReachedPersistence /\ ~Truthy(config.location)) =>
        /\ tmpdir = FALSE
        /\ files[RealTmpPath] = NoBytes
        /\ files[LiteralTmpPath] = NoBytes

\* C6: with kb_document_iri set and no 'tripper.triplestore' settings, a
\* get() that got past instance selection and met no collaborator failure
\* ends with the missing-configuration error (KeyError), has opened no
\* triplestore, and the artifact of the persistence step is in place: at the
\* location, or in the cache under the key.
C6_MissingSettingsAfterPersistence ==
    ( /\ Truthy(config.kb_document_iri)
      /\ ~get_settings(session)
      /\ Terminal
      /\ ReachedPersistence
      /\ ~CollaboratorFailed ) =>
        /\ pc = "raised"
        /\ error = "KeyError"
        /\ errAt = "kb"
        /\ tsOpened = 0
        /\ IF Truthy(config.location)
           THEN files[config.location] = ArtifactBytes
           ELSE cache[CacheKey] = ArtifactBytes

\* C7: at most one triplestore connection is opened, it is never closed more
\* often than opened, and once get() has left the try block (it went on to
\* update_collection, returned or raised) every opened connection has been
\* closed exactly once.
C7_ConnectionClosedOnce ==
    /\ tsClosed <= tsOpened
    /\ tsOpened <= 1
    /\ (pc \in {"update", "returned", "raised"} => tsClosed = tsOpened)

\* C7 witness: get() raised while enumerating the computation inputs, with
\* the connection opened once and closed once.
C7_Witness ==
    /\ pc = "raised"
    /\ errAt = "computation"
    /\ Len(restrictions) > 0
    /\ tsOpened = 1
    /\ tsClosed = 1

\* C8: nothing is written to a location or to the cache and no triplestore
\* is opened unless driver resolution, collection lookup and instance
\* selection have all succeeded; a failure in one of them ends get() there;
\* and under the by-datamodel policy with an empty sequence of instances
\* get() ends at the selection with the no-match error (StopIteration).
C8_EarlyFailureBeforePersistence ==
    /\ (~NothingWritten \/ tsOpened > 0) =>
          (driver # None /\ coll # None /\ inst # NoInst /\ ReachedPersistence)
    /\ (errAt \in {"driver", "collection", "select"}) =>
          (pc = "raised" /\ NothingWritten /\ tsOpened = 0 /\ updateCalls = 0)
    /\ ( /\ ~Truthy(config.label)
         /\ Truthy(config.datamodel)
         /\ instances = 0
         /\ pc \notin {"driver", "collection", "select"}
         /\ errAt \notin {"driver", "collection"} ) =>
          /\ pc = "raised"
          /\ errAt = "select"
          /\ error = "StopIteration"
          /\ NothingWritten
          /\ tsOpened = 0

\* C8 witness: {datamodel, mediaType: "application/json", accessKey: "k1"}
\* with no constructible instance: get() raised the no-match error.
C8_Witness ==
    /\ pc = "raised"
    /\ error = "StopIteration"
    /\ config.datamodel = ImageMeta
    /\ config.driver = None
    /\ config.mediaType = "application/json"
    /\ config.accessKey = "k1"
    /\ config.location = None
    /\ instances = 0
    /\ cache["k1"] = NoBytes

\* C9: with kb_document_computation given and a non-empty list of has-input
\* restrictions, get() ends with KBError when some input individual lacks a
\* metadata identifier, and the provenance step succeeds (get() returns)
\* when every input has one.
C9_ComputationInputsChecked ==
    (Terminal /\ Len(restrictions) > 0) =>
        IF \A i \in 1..Len(restrictions) : restrictions[i]
        THEN pc = "returned"
        ELSE pc = "raised" /\ error = "KBError"

\* C10: update_collection is called at most once; get() has returned exactly
\* when it was called; a get() that returned raised nothing, returns the id
\* of the collection it fetched, has persisted the artifact and, when
\* kb_document_iri is set, has recorded the resource description and closed
\* the triplestore; a get() that has not returned has published nothing.
C10_UpdateOnceLast ==
    /\ updateCalls <= 1
    /\ (pc = "returned" <=> updateCalls = 1)
    /\ (pc = "returned" =>
          /\ error = None
          /\ result = coll
          /\ result = FetchedId
          /\ IF Truthy(config.location)
             THEN files[config.location] = ArtifactBytes
             ELSE cache[CacheKey] = ArtifactBytes
          /\ (Truthy(config.kb_document_iri) =>
                kbResource = Resource /\ tsOpened = 1 /\ tsClosed = 1))
    /\ (pc # "returned" => result = None)

\* C10 witness: a whole-collection copy under a new id returned the id of
\* the fetched collection, not the id of the copy.
C10_Witness ==
    /\ pc = "returned"
    /\ inst.kind = "collection"
    /\ config.store_collection_id = "copy1"
    /\ "copy1" \in DOMAIN collections
    /\ result = coll
    /\ result # inst.id
    /\ updateCalls = 1

====
